---- MODULE Spec2Model ----
(***************************************************************************)
(* nomad-cli: the spinner harness (WithSpinner / Spinner.Start /           *)
(* Spinner.Stop), the speed test built on it (RunSpeedTest) and the        *)
(* quality scoring (calculate*Score, getQualityLabel).                     *)
(*                                                                         *)
(* Goroutines are "main" (the caller of RunSpeedTest), "render" (the       *)
(* goroutine of Spinner.Start) and "action" (the goroutine of WithSpinner  *)
(* that runs fn).  s.stop and s.done are unbuffered channels: a send and   *)
(* its receive are one rendezvous step.  sigChan and errChan are buffered  *)
(* with capacity 1.  A pointer is a sequence of length 0 (nil) or 1; an    *)
(* error is a sequence of message parts, <<>> being nil.                   *)
(***************************************************************************)
EXTENDS Integers, Sequences, FiniteSets, TLC

\* ------------------------------------------------------------------ bounds
\* Frames one spinner draws before its loop only waits for stop or a signal.
MaxFrames == 2
\* Signals the environment delivers during one run.
MaxSignals == 2
\* getQualityLabel is applied to every score from -ScoreSlack to 100 + ScoreSlack.
ScoreSlack == 20
\* the longest sample sequence drawn under LatencySpec
MaxSamples == 3
\* the most frames one spinner draws under SpinSpec
MaxSpin == 12

\* ------------------------------------------------------- program constants
NumFrames == 10
SigChanCap == 1
ErrChanCap == 1
UnitGuess == 1000000
NsPerUs == 1000
NsPerMs == 1000000
BytesPerMbps == 125000
\* A float64 Mbps figure is held in thousandths of a Mbps; every threshold
\* the program compares it with is a whole number of Mbps.
MbpsUnit == 1000

Signals == {"SIGINT", "SIGTERM"}
Causes == {"timeout", "refused"}
NilErr == <<>>
Goroutines == {"main", "render", "action"}

\* ------------------------------------------------------------------ state
VARIABLES
  pc,          \* position of each goroutine
  phase,       \* which WithSpinner call of RunSpeedTest: 1 fetch .. 4 upload
  pos,         \* Spinner.pos of the current spinner
  drawn,       \* frames the current spinner has written
  sigChans,    \* one buffered sigChan per Spinner.Start so far, all still registered
  nsig,        \* signals delivered so far
  sigDuring,   \* phases whose WithSpinner call was active when a signal arrived
  errChan,     \* WithSpinner's errChan
  fnRet,       \* what fn returned in the action goroutine
  err,         \* WithSpinner's local err, then RunSpeedTest's err
  lastWrite,   \* the last write to the terminal
  exitStatus,  \* "running", "exit1" (os.Exit(1)) or "killed" (default signal action)
  calls,       \* the external calls made so far, in order
  servers,     \* RunSpeedTest's servers
  targets,     \* RunSpeedTest's targets
  server,      \* RunSpeedTest's server (a pointer)
  latencies,   \* what TCPPing returned
  result,      \* RunSpeedTest's returned *SpeedTestResult
  quality,     \* RunSpeedTest's returned *NetworkQuality
  retErr,      \* RunSpeedTest's returned error
  printed,     \* the lines handleSpeedTest has printed
  arg,         \* the argument of the pure function under PureSpec
  ret,         \* its returned value
  assessed     \* history: <<Result, Assessment>> of every calculateNetworkQuality call

vars == << pc, phase, pos, drawn, sigChans, nsig, sigDuring, errChan, fnRet, err,
           lastWrite, exitStatus, calls, servers, targets, server, latencies,
           result, quality, retErr, printed, arg, ret, assessed >>

spinnerVars == << pos, drawn >>
dataVars == << servers, targets, server, latencies >>
outVars == << result, quality, retErr, printed >>
pureVars == << arg, ret, assessed >>

\* ---------------------------------------------------------- pure helpers
Range(s) == { s[i] : i \in 1..Len(s) }

RECURSIVE SumSeq(_)
SumSeq(s) == IF s = <<>> THEN 0 ELSE s[1] + SumSeq(Tail(s))

\* mutant: each deviation is taken one unit too large
RECURSIVE SumSqDiffOffByOne(_, _)
SumSqDiffOffByOne(s, avg) ==
  IF s = <<>> THEN 0
  ELSE (s[1] - avg + 1) * (s[1] - avg + 1) + SumSqDiffOffByOne(Tail(s), avg)

\* sum of the squared deviations, speedtest.go 84-88
RECURSIVE SumSqDiff(_, _)
SumSqDiff(s, avg) ==
  IF s = <<>> THEN 0
  ELSE (s[1] - avg) * (s[1] - avg) + SumSqDiff(Tail(s), avg)

\* Go's integer division truncates toward zero.
GoDiv(a, b) == IF a >= 0 THEN a \div b ELSE -((-a) \div b)

\* int64(math.Sqrt(x)) for x >= 0: the largest r with r*r <= x.
RECURSIVE SqrtFrom(_, _)
SqrtFrom(x, r) == IF (r + 1) * (r + 1) > x THEN r ELSE SqrtFrom(x, r + 1)

ISqrt(x) == SqrtFrom(x, 0)

\* speedtest.go 70-74
avgLatency(lats) == GoDiv(SumSeq(lats), Len(lats))

\* mutant: each value's unit is guessed from the value itself
ToDurationOwnUnit(avg, v) == IF v > UnitGuess THEN v ELSE v * NsPerUs

\* speedtest.go 77-81 and 92-96: the unit is guessed from the average
ToDuration(avg, v) == IF avg > UnitGuess THEN v ELSE v * NsPerUs

\* mutant: the sample standard deviation, dividing by N-1
jitterValueSample(lats) ==
  IF Len(lats) = 1 THEN 0
  ELSE ISqrt(GoDiv(SumSqDiff(lats, avgLatency(lats)), Len(lats) - 1))

\* speedtest.go 84-89
jitterValue(lats) == ISqrt(GoDiv(SumSqDiff(lats, avgLatency(lats)), Len(lats)))

\* mutant: with no sample the latency and the jitter are reset to zero
MeasuredServerZeroed(srv, lats) ==
  IF Len(lats) > 0
  THEN [srv EXCEPT !.Latency = ToDuration(avgLatency(lats), avgLatency(lats)),
                   !.Jitter = ToDuration(avgLatency(lats), jitterValue(lats))]
  ELSE [srv EXCEPT !.Latency = 0, !.Jitter = 0]

\* mutant: no unit guess, the values are taken as nanoseconds
MeasuredServerNsOnly(srv, lats) ==
  IF Len(lats) > 0
  THEN [srv EXCEPT !.Latency = avgLatency(lats), !.Jitter = jitterValue(lats)]
  ELSE srv

\* the latency action's effect on the server, speedtest.go 69-97
MeasuredServer(srv, lats) ==
  IF Len(lats) > 0
  THEN [srv EXCEPT !.Latency = ToDuration(avgLatency(lats), avgLatency(lats)),
                   !.Jitter = ToDuration(avgLatency(lats), jitterValue(lats))]
  ELSE srv

\* mutant: the duration is rounded up to the next millisecond
MillisecondsCeil(d) == GoDiv(d + (NsPerMs - 1), NsPerMs)

\* mutant: the duration is rounded to the nearest millisecond
MillisecondsRounded(d) == GoDiv(d + (NsPerMs \div 2), NsPerMs)

\* time.Duration.Milliseconds
Milliseconds(d) == GoDiv(d, NsPerMs)

\* ByteRate.Mbps, in thousandths of a Mbps
Mbps(rate) == rate \div (BytesPerMbps \div MbpsUnit)

\* mutant: an upload of 5 Mbps or more earns only 5 streaming points
calculateStreamingScoreLowUpload(r) ==
  LET latencyMs == Milliseconds(r.Latency)
      jitterMs == Milliseconds(r.Jitter)
      dl == IF r.DownloadSpeed >= 25 * MbpsUnit THEN 40
            ELSE IF r.DownloadSpeed >= 10 * MbpsUnit THEN 30
            ELSE IF r.DownloadSpeed >= 5 * MbpsUnit THEN 20
            ELSE IF r.DownloadSpeed >= 2 * MbpsUnit THEN 10
            ELSE 0
      lat == IF latencyMs <= 20 THEN 30
             ELSE IF latencyMs <= 50 THEN 20
             ELSE IF latencyMs <= 100 THEN 10
             ELSE 0
      jit == IF jitterMs <= 5 THEN 20
             ELSE IF jitterMs <= 15 THEN 10
             ELSE 0
      ul == IF r.UploadSpeed >= 5 * MbpsUnit THEN 5
            ELSE IF r.UploadSpeed >= 2 * MbpsUnit THEN 5
            ELSE 0
  IN  dl + lat + jit + ul

\* speedtest.go 155-196
calculateStreamingScore(r) ==
  LET latencyMs == Milliseconds(r.Latency)
      jitterMs == Milliseconds(r.Jitter)
      dl == IF r.DownloadSpeed >= 25 * MbpsUnit THEN 40
            ELSE IF r.DownloadSpeed >= 10 * MbpsUnit THEN 30
            ELSE IF r.DownloadSpeed >= 5 * MbpsUnit THEN 20
            ELSE IF r.DownloadSpeed >= 2 * MbpsUnit THEN 10
            ELSE 0
      lat == IF latencyMs <= 20 THEN 30
             ELSE IF latencyMs <= 50 THEN 20
             ELSE IF latencyMs <= 100 THEN 10
             ELSE 0
      jit == IF jitterMs <= 5 THEN 20
             ELSE IF jitterMs <= 15 THEN 10
             ELSE 0
      ul == IF r.UploadSpeed >= 5 * MbpsUnit THEN 10
            ELSE IF r.UploadSpeed >= 2 * MbpsUnit THEN 5
            ELSE 0
  IN  dl + lat + jit + ul

\* mutant: a latency of 11..20 ms earns only 20 gaming points
calculateGamingScoreFlatLatency(r) ==
  LET latencyMs == Milliseconds(r.Latency)
      jitterMs == Milliseconds(r.Jitter)
      lat == IF latencyMs <= 10 THEN 40
             ELSE IF latencyMs <= 20 THEN 20
             ELSE IF latencyMs <= 50 THEN 20
             ELSE IF latencyMs <= 100 THEN 10
             ELSE 0
      jit == IF jitterMs <= 2 THEN 30
             ELSE IF jitterMs <= 5 THEN 20
             ELSE IF jitterMs <= 10 THEN 10
             ELSE 0
      dl == IF r.DownloadSpeed >= 10 * MbpsUnit THEN 20
            ELSE IF r.DownloadSpeed >= 5 * MbpsUnit THEN 15
            ELSE IF r.DownloadSpeed >= 2 * MbpsUnit THEN 10
            ELSE 0
      ul == IF r.UploadSpeed >= 5 * MbpsUnit THEN 10
            ELSE IF r.UploadSpeed >= 2 * MbpsUnit THEN 5
            ELSE 0
  IN  lat + jit + dl + ul

\* mutant: a latency of 10 ms or less earns 45 gaming points
calculateGamingScoreOver(r) ==
  LET latencyMs == Milliseconds(r.Latency)
      jitterMs == Milliseconds(r.Jitter)
      lat == IF latencyMs <= 10 THEN 45
             ELSE IF latencyMs <= 20 THEN 30
             ELSE IF latencyMs <= 50 THEN 20
             ELSE IF latencyMs <= 100 THEN 10
             ELSE 0
      jit == IF jitterMs <= 2 THEN 30
             ELSE IF jitterMs <= 5 THEN 20
             ELSE IF jitterMs <= 10 THEN 10
             ELSE 0
      dl == IF r.DownloadSpeed >= 10 * MbpsUnit THEN 20
            ELSE IF r.DownloadSpeed >= 5 * MbpsUnit THEN 15
            ELSE IF r.DownloadSpeed >= 2 * MbpsUnit THEN 10
            ELSE 0
      ul == IF r.UploadSpeed >= 5 * MbpsUnit THEN 10
            ELSE IF r.UploadSpeed >= 2 * MbpsUnit THEN 5
            ELSE 0
  IN  lat + jit + dl + ul

\* speedtest.go 198-241
calculateGamingScore(r) ==
  LET latencyMs == Milliseconds(r.Latency)
      jitterMs == Milliseconds(r.Jitter)
      lat == IF latencyMs <= 10 THEN 40
             ELSE IF latencyMs <= 20 THEN 30
             ELSE IF latencyMs <= 50 THEN 20
             ELSE IF latencyMs <= 100 THEN 10
             ELSE 0
      jit == IF jitterMs <= 2 THEN 30
             ELSE IF jitterMs <= 5 THEN 20
             ELSE IF jitterMs <= 10 THEN 10
             ELSE 0
      dl == IF r.DownloadSpeed >= 10 * MbpsUnit THEN 20
            ELSE IF r.DownloadSpeed >= 5 * MbpsUnit THEN 15
            ELSE IF r.DownloadSpeed >= 2 * MbpsUnit THEN 10
            ELSE 0
      ul == IF r.UploadSpeed >= 5 * MbpsUnit THEN 10
            ELSE IF r.UploadSpeed >= 2 * MbpsUnit THEN 5
            ELSE 0
  IN  lat + jit + dl + ul

\* mutant: a jitter of 16..30 ms earns more webchat points than one of 6..15 ms
calculateWebchatScoreDip(r) ==
  LET latencyMs == Milliseconds(r.Latency)
      jitterMs == Milliseconds(r.Jitter)
      lat == IF latencyMs <= 20 THEN 30
             ELSE IF latencyMs <= 50 THEN 20
             ELSE IF latencyMs <= 100 THEN 10
             ELSE 0
      jit == IF jitterMs <= 5 THEN 25
             ELSE IF jitterMs <= 15 THEN 15
             ELSE IF jitterMs <= 30 THEN 20
             ELSE 0
      ul == IF r.UploadSpeed >= 5 * MbpsUnit THEN 25
            ELSE IF r.UploadSpeed >= 2 * MbpsUnit THEN 15
            ELSE IF r.UploadSpeed >= 1 * MbpsUnit THEN 10
            ELSE 0
      dl == IF r.DownloadSpeed >= 5 * MbpsUnit THEN 20
            ELSE IF r.DownloadSpeed >= 2 * MbpsUnit THEN 10
            ELSE 0
  IN  lat + jit + ul + dl

\* speedtest.go 243-284
calculateWebchatScore(r) ==
  LET latencyMs == Milliseconds(r.Latency)
      jitterMs == Milliseconds(r.Jitter)
      lat == IF latencyMs <= 20 THEN 30
             ELSE IF latencyMs <= 50 THEN 20
             ELSE IF latencyMs <= 100 THEN 10
             ELSE 0
      jit == IF jitterMs <= 5 THEN 25
             ELSE IF jitterMs <= 15 THEN 15
             ELSE IF jitterMs <= 30 THEN 5
             ELSE 0
      ul == IF r.UploadSpeed >= 5 * MbpsUnit THEN 25
            ELSE IF r.UploadSpeed >= 2 * MbpsUnit THEN 15
            ELSE IF r.UploadSpeed >= 1 * MbpsUnit THEN 10
            ELSE 0
      dl == IF r.DownloadSpeed >= 5 * MbpsUnit THEN 20
            ELSE IF r.DownloadSpeed >= 2 * MbpsUnit THEN 10
            ELSE 0
  IN  lat + jit + ul + dl

\* mutant: the top cut point is exclusive
getQualityLabelExclusive(score) ==
  IF score > 80 THEN "Great"
  ELSE IF score >= 60 THEN "Good"
  ELSE IF score >= 40 THEN "Average"
  ELSE IF score >= 20 THEN "Poor"
  ELSE "Bad"

\* speedtest.go 286-300
getQualityLabel(score) ==
  IF score >= 80 THEN "Great"
  ELSE IF score >= 60 THEN "Good"
  ELSE IF score >= 40 THEN "Average"
  ELSE IF score >= 20 THEN "Poor"
  ELSE "Bad"

\* mutant: an Assessment is remembered per server and returned again for it
calculateNetworkQualityCached(r) ==
  IF \E p \in assessed : p[1].ServerName = r.ServerName
  THEN (CHOOSE p \in assessed : p[1].ServerName = r.ServerName)[2]
  ELSE [Streaming |-> getQualityLabel(calculateStreamingScore(r)),
        Gaming    |-> getQualityLabel(calculateGamingScore(r)),
        Webchat   |-> getQualityLabel(calculateWebchatScore(r))]

\* speedtest.go 136-153
calculateNetworkQuality(r) ==
  [Streaming |-> getQualityLabel(calculateStreamingScore(r)),
   Gaming    |-> getQualityLabel(calculateGamingScore(r)),
   Webchat   |-> getQualityLabel(calculateWebchatScore(r))]

\* mutant: download and upload are swapped in the Result
MakeResultSwapped(srv) ==
  [Latency       |-> srv.Latency,
   Jitter        |-> srv.Jitter,
   DownloadSpeed |-> srv.ULSpeed \div (BytesPerMbps \div MbpsUnit),
   UploadSpeed   |-> srv.DLSpeed \div (BytesPerMbps \div MbpsUnit),
   ServerName    |-> srv.Name,
   ServerCountry |-> srv.Country]

\* speedtest.go 121-128
MakeResult(srv) ==
  [Latency       |-> srv.Latency,
   Jitter        |-> srv.Jitter,
   DownloadSpeed |-> Mbps(srv.DLSpeed),
   UploadSpeed   |-> Mbps(srv.ULSpeed),
   ServerName    |-> srv.Name,
   ServerCountry |-> srv.Country]

\* fmt.Errorf("<prefix>: %v", err)
Wrap(prefix, e) == <<prefix>> \o e

\* the message of each phase's WithSpinner call, speedtest.go 36, 59, 106, 114
Message(p) ==
  CASE p = 1 -> "Fetching server list..."
    [] p = 2 -> "Testing latency and jitter..."
    [] p = 3 -> "Testing download speed..."
    [] p = 4 -> "Testing upload speed..."

\* the prefix RunSpeedTest puts before a phase's error, speedtest.go 42, 102, 110, 118
PhaseError(p) ==
  CASE p = 1 -> "failed to fetch server list"
    [] p = 2 -> "latency test failed"
    [] p = 3 -> "download test failed"
    [] p = 4 -> "upload test failed"

\* the external call each phase's action makes, speedtest.go 38, 61, 107, 115
PhaseCall(p) ==
  CASE p = 1 -> "FetchServers"
    [] p = 2 -> "TCPPing"
    [] p = 3 -> "DownloadTest"
    [] p = 4 -> "UploadTest"

\* ------------------------------------------------- the external capabilities
\* What the server directory, the probes and the ranking may hand back.
ServerA ==
  [Name |-> "Tokyo", Country |-> "Japan", Latency |-> 7 * NsPerMs,
   Jitter |-> 1 * NsPerMs, DLSpeed |-> 0, ULSpeed |-> 0]

ServerB ==
  [Name |-> "Lisbon", Country |-> "Portugal", Latency |-> 30 * NsPerMs,
   Jitter |-> 4 * NsPerMs, DLSpeed |-> 0, ULSpeed |-> 0]

ServerLists ==
  { <<>>, <<ServerA>>, <<ServerB>>, <<ServerA, ServerB>>, <<ServerB, ServerA>> }

\* FetchServers: the lists the directory may return without an error
FetchedLists == { <<>>, <<ServerA, ServerB>> }

\* FindServer: a ranking of servers of the fetched list, possibly empty
TargetsOf(srvs) == { t \in ServerLists : Range(t) \subseteq Range(srvs) }

\* TCPPing: the sample sequences the probe may return without an error
SampleSets ==
  { <<>>, <<2000000, 2000040>>, <<15000, 15040, 15020>>,
    <<10000000, 10000000, 10000000, 10000000, 10000000>>,
    <<10000, 10000, 10000, 10000, 10000>> }

\* DownloadTest / UploadTest: the byte rates the probes may measure
Rates == { 150000, 3750000 }

\* --------------------------------------------------------------- terminal
NoWrite == [kind |-> "none", glyph |-> 0, msg |-> ""]
ClearLine == [kind |-> "clear", glyph |-> 0, msg |-> ""]
Frame(i, m) == [kind |-> "frame", glyph |-> i, msg |-> m]

\* ----------------------------------------------------------------- Init
NoArg == [fn |-> "none", result |-> MakeResult(ServerA), score |-> 0]
NoScores == [Streaming |-> 0, Gaming |-> 0, Webchat |-> 0]
NoRet == [called |-> FALSE, scores |-> NoScores, quality |-> <<>>, label |-> ""]

InitHarness ==
  /\ pos = 0
  /\ drawn = 0
  /\ sigChans = <<>>
  /\ nsig = 0
  /\ sigDuring = {}
  /\ errChan = <<>>
  /\ fnRet = NilErr
  /\ err = NilErr
  /\ lastWrite = NoWrite
  /\ exitStatus = "running"
  /\ calls = <<>>
  /\ servers = <<>>
  /\ targets = <<>>
  /\ server = <<>>
  /\ latencies = <<>>
  /\ result = <<>>
  /\ quality = <<>>
  /\ retErr = NilErr
  /\ printed = <<>>
  /\ assessed = {}

\* RunSpeedTest has been entered and is about to make its first WithSpinner call.
Init ==
  /\ InitHarness
  /\ pc = [main |-> "call", render |-> "none", action |-> "none"]
  /\ phase = 1
  /\ arg = NoArg
  /\ ret = NoRet

\* ------------------------------------------------------------ the harness
Alive == exitStatus = "running"

\* mutant: a spinner reads the channel of the spinner before it, if any
curPrevious == IF Len(sigChans) > 1 THEN Len(sigChans) - 1 ELSE Len(sigChans)

\* the sigChan of the spinner now running: the one registered last
cur == Len(sigChans)

\* a WithSpinner call is between its Start and its return
Active == pc["main"] \in {"wait", "stop_send", "stop_recv", "stop_clear"}

\* WithSpinner 62-69 with NewSpinner 18-25 and Spinner.Start 27-48:
\* a fresh spinner, a new signal subscription, the render and action goroutines
WithSpinnerCall ==
  /\ Alive
  /\ pc["main"] = "call"
  /\ pos' = 0
  /\ drawn' = 0
  /\ sigChans' = Append(sigChans, <<>>)
  /\ errChan' = <<>>
  /\ pc' = [main |-> "wait", render |-> "select", action |-> "run"]
  /\ UNCHANGED << phase, nsig, sigDuring, fnRet, err, lastWrite, exitStatus, calls >>
  /\ UNCHANGED << dataVars, outVars, pureVars >>

\* mutant: the received error is dropped and nil is returned
ReceivedErrDropped(ch) == NilErr

\* what WithSpinner takes from errChan, part_002 72
ReceivedErr(ch) == Head(ch)

\* WithSpinner 72: err := <-errChan, then spinner.Stop() is entered
MainRecv ==
  /\ Alive
  /\ pc["main"] = "wait"
  /\ errChan # <<>>
  /\ err' = ReceivedErr(errChan)
  /\ errChan' = Tail(errChan)
  /\ pc' = [pc EXCEPT !["main"] = "stop_send"]
  /\ UNCHANGED << phase, spinnerVars, sigChans, nsig, sigDuring, fnRet, lastWrite,
                  exitStatus, calls >>
  /\ UNCHANGED << dataVars, outVars, pureVars >>

\* mutant: the stop case returns without sending on s.done
StopSendNoDone(g) ==
  /\ Alive
  /\ pc[g] = "stop_send"
  /\ pc["render"] = "select"
  /\ pc' = [pc EXCEPT ![g] = "stop_recv", !["render"] = "returned"]
  /\ UNCHANGED << phase, spinnerVars, sigChans, nsig, sigDuring, errChan, fnRet, err,
                  lastWrite, exitStatus, calls >>
  /\ UNCHANGED << dataVars, outVars, pureVars >>

\* Spinner.Stop 51 meeting the select's case <-s.stop (35): g is the goroutine
\* that called Stop, the receiver is the render goroutine at its select
StopSend(g) ==
  /\ Alive
  /\ pc[g] = "stop_send"
  /\ pc["render"] = "select"
  /\ pc' = [pc EXCEPT ![g] = "stop_recv", !["render"] = "send_done"]
  /\ UNCHANGED << phase, spinnerVars, sigChans, nsig, sigDuring, errChan, fnRet, err,
                  lastWrite, exitStatus, calls >>
  /\ UNCHANGED << dataVars, outVars, pureVars >>

\* mutant: Stop does not wait for the render goroutine's s.done
StopRecvNoWait(g) ==
  /\ Alive
  /\ pc[g] = "stop_recv"
  /\ pc' = [pc EXCEPT ![g] = "stop_clear"]
  /\ UNCHANGED << phase, spinnerVars, sigChans, nsig, sigDuring, errChan, fnRet, err,
                  lastWrite, exitStatus, calls >>
  /\ UNCHANGED << dataVars, outVars, pureVars >>

\* Spinner.Stop 52 meeting s.done <- true (36); the render goroutine returns (37)
StopRecv(g) ==
  /\ Alive
  /\ pc[g] = "stop_recv"
  /\ pc["render"] = "send_done"
  /\ pc' = [pc EXCEPT ![g] = "stop_clear", !["render"] = "returned"]
  /\ UNCHANGED << phase, spinnerVars, sigChans, nsig, sigDuring, errChan, fnRet, err,
                  lastWrite, exitStatus, calls >>
  /\ UNCHANGED << dataVars, outVars, pureVars >>

\* where Stop's caller goes on: WithSpinner returns err (74), the render
\* goroutine's signal case goes on to os.Exit(1) (40)
AfterStop(g) == IF g = "main" THEN "ret" ELSE "exit"

\* mutant: Stop returns without writing the clear sequence
StopClearSkipped(g) ==
  /\ Alive
  /\ pc[g] = "stop_clear"
  /\ pc' = [pc EXCEPT ![g] = AfterStop(g)]
  /\ exitStatus' = IF AfterStop(g) = "exit" THEN "exit1" ELSE exitStatus
  /\ UNCHANGED << phase, spinnerVars, sigChans, nsig, sigDuring, errChan, fnRet, err,
                  lastWrite, calls >>
  /\ UNCHANGED << dataVars, outVars, pureVars >>

\* Spinner.Stop 53: the line is cleared and Stop returns to its caller
StopClear(g) ==
  /\ Alive
  /\ pc[g] = "stop_clear"
  /\ lastWrite' = ClearLine
  /\ pc' = [pc EXCEPT ![g] = AfterStop(g)]
  /\ exitStatus' = IF AfterStop(g) = "exit" THEN "exit1" ELSE exitStatus
  /\ UNCHANGED << phase, spinnerVars, sigChans, nsig, sigDuring, errChan, fnRet, err,
                  calls >>
  /\ UNCHANGED << dataVars, outVars, pureVars >>

\* the select's default is taken only when neither channel is ready (34-41)
DefaultReady ==
  /\ \A g \in Goroutines : pc[g] # "stop_send"
  /\ sigChans[cur] = <<>>

RenderDefaultUpTo(n) ==
  /\ Alive
  /\ pc["render"] = "select"
  /\ DefaultReady
  /\ drawn < n
  /\ pc' = [pc EXCEPT !["render"] = "frame"]
  /\ UNCHANGED << phase, spinnerVars, sigChans, nsig, sigDuring, errChan, fnRet, err,
                  lastWrite, exitStatus, calls >>
  /\ UNCHANGED << dataVars, outVars, pureVars >>

RenderDefault == RenderDefaultUpTo(MaxFrames)

\* mutant: the index is not taken modulo the frame count
NextPosNoWrap(p) == p + 1

\* Spinner.Start 43
NextPos(p) == (p + 1) % NumFrames

\* Spinner.Start 42-43: one frame is written and pos advances
RenderFrame ==
  /\ Alive
  /\ pc["render"] = "frame"
  /\ lastWrite' = Frame(pos, Message(phase))
  /\ pos' = NextPos(pos)
  /\ drawn' = drawn + 1
  /\ pc' = [pc EXCEPT !["render"] = "sleep"]
  /\ UNCHANGED << phase, sigChans, nsig, sigDuring, errChan, fnRet, err, exitStatus,
                  calls >>
  /\ UNCHANGED << dataVars, outVars, pureVars >>

\* Spinner.Start 44: the sleep ends and the loop selects again
RenderWake ==
  /\ Alive
  /\ pc["render"] = "sleep"
  /\ pc' = [pc EXCEPT !["render"] = "select"]
  /\ UNCHANGED << phase, spinnerVars, sigChans, nsig, sigDuring, errChan, fnRet, err,
                  lastWrite, exitStatus, calls >>
  /\ UNCHANGED << dataVars, outVars, pureVars >>

\* Spinner.Start 38-39: the signal is taken and s.Stop() is called from the
\* render goroutine itself
RenderSignal ==
  /\ Alive
  /\ pc["render"] = "select"
  /\ sigChans[cur] # <<>>
  /\ sigChans' = [sigChans EXCEPT ![cur] = Tail(sigChans[cur])]
  /\ pc' = [pc EXCEPT !["render"] = "stop_send"]
  /\ UNCHANGED << phase, spinnerVars, nsig, sigDuring, errChan, fnRet, err, lastWrite,
                  exitStatus, calls >>
  /\ UNCHANGED << dataVars, outVars, pureVars >>

\* signal.Notify 30: a signal goes to every registered channel that has room;
\* with no channel registered the default action ends the process
Notified(chans, sig) ==
  [i \in DOMAIN chans |->
     IF Len(chans[i]) < SigChanCap THEN Append(chans[i], sig) ELSE chans[i]]

DeliverSignal ==
  /\ Alive
  /\ pc["main"] # "returned"
  /\ nsig < MaxSignals
  /\ \E sig \in Signals :
       /\ nsig' = nsig + 1
       /\ sigChans' = Notified(sigChans, sig)
       /\ sigDuring' = IF Active THEN sigDuring \cup {phase} ELSE sigDuring
       /\ exitStatus' = IF sigChans = <<>> THEN "killed" ELSE exitStatus
  /\ UNCHANGED << pc, phase, spinnerVars, errChan, fnRet, err, lastWrite, calls >>
  /\ UNCHANGED << dataVars, outVars, pureVars >>

\* -------------------------------------------------- the action goroutine
\* WithSpinner 67-69 runs fn; each phase's fn is below.  fn's return value is
\* held in fnRet until it is sent.

\* speedtest.go 36-40: servers, fetchErr = speedtest.FetchServers()
FetchServersFn ==
  /\ Alive
  /\ pc["action"] = "run"
  /\ phase = 1
  /\ calls' = Append(calls, PhaseCall(1))
  /\ \/ \E e \in Causes : fnRet' = <<e>> /\ servers' = <<>>
     \/ \E l \in FetchedLists : fnRet' = NilErr /\ servers' = l
  /\ pc' = [pc EXCEPT !["action"] = "send"]
  /\ UNCHANGED << phase, spinnerVars, sigChans, nsig, sigDuring, errChan, err,
                  lastWrite, exitStatus, targets, server, latencies >>
  /\ UNCHANGED << outVars, pureVars >>

\* speedtest.go 59-100: TCPPing, then the average and the jitter
LatencyFnOn(samples) ==
  /\ Alive
  /\ pc["action"] = "run"
  /\ phase = 2
  /\ calls' = Append(calls, PhaseCall(2))
  /\ \/ \E e \in Causes : fnRet' = <<e>> /\ UNCHANGED << server, latencies >>
     \/ \E lats \in samples :
          /\ fnRet' = NilErr
          /\ latencies' = lats
          /\ server' = <<MeasuredServer(server[1], lats)>>
  /\ pc' = [pc EXCEPT !["action"] = "send"]
  /\ UNCHANGED << phase, spinnerVars, sigChans, nsig, sigDuring, errChan, err,
                  lastWrite, exitStatus, servers, targets >>
  /\ UNCHANGED << outVars, pureVars >>

LatencyFn == LatencyFnOn(SampleSets)

\* speedtest.go 106-108: server.DownloadTest() measures server.DLSpeed
DownloadFn ==
  /\ Alive
  /\ pc["action"] = "run"
  /\ phase = 3
  /\ calls' = Append(calls, PhaseCall(3))
  /\ \/ \E e \in Causes : fnRet' = <<e>> /\ UNCHANGED server
     \/ \E r \in Rates :
          /\ fnRet' = NilErr
          /\ server' = <<[server[1] EXCEPT !.DLSpeed = r]>>
  /\ pc' = [pc EXCEPT !["action"] = "send"]
  /\ UNCHANGED << phase, spinnerVars, sigChans, nsig, sigDuring, errChan, err,
                  lastWrite, exitStatus, servers, targets, latencies >>
  /\ UNCHANGED << outVars, pureVars >>

\* speedtest.go 114-116: server.UploadTest() measures server.ULSpeed
UploadFn ==
  /\ Alive
  /\ pc["action"] = "run"
  /\ phase = 4
  /\ calls' = Append(calls, PhaseCall(4))
  /\ \/ \E e \in Causes : fnRet' = <<e>> /\ UNCHANGED server
     \/ \E r \in Rates :
          /\ fnRet' = NilErr
          /\ server' = <<[server[1] EXCEPT !.ULSpeed = r]>>
  /\ pc' = [pc EXCEPT !["action"] = "send"]
  /\ UNCHANGED << phase, spinnerVars, sigChans, nsig, sigDuring, errChan, err,
                  lastWrite, exitStatus, servers, targets, latencies >>
  /\ UNCHANGED << outVars, pureVars >>

\* WithSpinner 68: errChan <- fn(), a buffered send that never blocks
ActionSend ==
  /\ Alive
  /\ pc["action"] = "send"
  /\ Len(errChan) < ErrChanCap
  /\ errChan' = Append(errChan, fnRet)
  /\ pc' = [pc EXCEPT !["action"] = "returned"]
  /\ UNCHANGED << phase, spinnerVars, sigChans, nsig, sigDuring, fnRet, err, lastWrite,
                  exitStatus, calls >>
  /\ UNCHANGED << dataVars, outVars, pureVars >>

\* ----------------------------------------------------------- RunSpeedTest
\* mutant: every failure is reported under the latency phase's prefix
PhaseFailureOnePrefix(p, e) == Wrap("latency test failed", e)

\* the error RunSpeedTest returns for a failed phase, speedtest.go 42, 102, 110, 118
PhaseFailure(p, e) == Wrap(PhaseError(p), e)

\* mutant: the last entry is taken instead of the first
SelectLast(t) == t[Len(t)]

\* speedtest.go 56: server := targets[0]
SelectServer(t) == t[1]

\* mutant: the error check is missing
FailedIgnored(e) == FALSE

\* whether RunSpeedTest goes on after a WithSpinner call, speedtest.go 41, 101, 109, 117
Failed(e) == e # NilErr

\* speedtest.go 41-43, 101-103, 109-111, 117-133: the check after each
\* WithSpinner call; after the upload phase the Result and the Assessment
\* are built and returned
AfterWithSpinner ==
  /\ Alive
  /\ pc["main"] = "ret"
  /\ IF Failed(err)
     THEN /\ retErr' = PhaseFailure(phase, err)
          /\ result' = <<>>
          /\ quality' = <<>>
          /\ pc' = [pc EXCEPT !["main"] = "returned"]
          /\ UNCHANGED << phase, assessed >>
     ELSE IF phase = 1
     THEN /\ pc' = [pc EXCEPT !["main"] = "find"]
          /\ UNCHANGED << phase, outVars, assessed >>
     ELSE IF phase < 4
     THEN /\ phase' = phase + 1
          /\ pc' = [pc EXCEPT !["main"] = "call"]
          /\ UNCHANGED << outVars, assessed >>
     ELSE /\ result' = <<MakeResult(server[1])>>
          /\ quality' = <<calculateNetworkQuality(MakeResult(server[1]))>>
          /\ assessed' = assessed \cup
               { <<MakeResult(server[1]), calculateNetworkQuality(MakeResult(server[1]))>> }
          /\ retErr' = NilErr
          /\ pc' = [pc EXCEPT !["main"] = "returned"]
          /\ UNCHANGED phase
  /\ UNCHANGED << spinnerVars, sigChans, nsig, sigDuring, errChan, fnRet, err,
                  lastWrite, exitStatus, calls, printed >>
  /\ UNCHANGED << dataVars, arg, ret >>

\* speedtest.go 46-56: targets, err := servers.FindServer([]int{})
FindServer ==
  /\ Alive
  /\ pc["main"] = "find"
  /\ calls' = Append(calls, "FindServer")
  /\ \/ \E e \in Causes :
          /\ err' = <<e>>
          /\ retErr' = Wrap("failed to find servers", <<e>>)
          /\ pc' = [pc EXCEPT !["main"] = "returned"]
          /\ UNCHANGED << phase, targets, server >>
     \/ \E t \in TargetsOf(servers) :
          /\ err' = NilErr
          /\ targets' = t
          /\ IF Len(t) = 0
             THEN /\ retErr' = <<"no servers found">>
                  /\ pc' = [pc EXCEPT !["main"] = "returned"]
                  /\ UNCHANGED << phase, server >>
             ELSE /\ server' = <<SelectServer(t)>>
                  /\ phase' = 2
                  /\ pc' = [pc EXCEPT !["main"] = "call"]
                  /\ UNCHANGED retErr
  /\ UNCHANGED << spinnerVars, sigChans, nsig, sigDuring, errChan, fnRet, lastWrite,
                  exitStatus, servers, latencies, result, quality, printed >>
  /\ UNCHANGED pureVars

\* ---------------------------------------------------------- handleSpeedTest
\* a printed line: its label and the value it is printed from
ErrorLine == [line |-> "Error", from |-> "err"]

ResultLines ==
  << [line |-> "Speed Test Results", from |-> "title"],
     [line |-> "Server", from |-> "result"],
     [line |-> "Latency", from |-> "result"],
     [line |-> "Jitter", from |-> "result"],
     [line |-> "Download", from |-> "result"],
     [line |-> "Upload", from |-> "result"],
     [line |-> "Network Quality Assessment", from |-> "title"],
     [line |-> "Streaming", from |-> "quality"],
     [line |-> "Gaming", from |-> "quality"],
     [line |-> "Webchat/RTC", from |-> "quality"] >>

\* mutant: the command ends with status zero whatever RunSpeedTest returned
ExitCodeZero(e) == "exit0"

\* part_001 220-223: os.Exit(1) on an error; otherwise main returns
ExitCode(e) == IF e # NilErr THEN "exit1" ELSE "exit0"

\* part_001 217-249: the speed command, after RunSpeedTest has returned
HandleSpeedTest ==
  /\ Alive
  /\ pc["main"] = "returned"
  /\ printed' = IF retErr # NilErr
                 THEN Append(printed, ErrorLine)
                 ELSE printed \o ResultLines
  /\ exitStatus' = ExitCode(retErr)
  /\ UNCHANGED << pc, phase, spinnerVars, sigChans, nsig, sigDuring, errChan, fnRet, err,
                  lastWrite, calls, result, quality, retErr >>
  /\ UNCHANGED << dataVars, pureVars >>

Next ==
  \/ WithSpinnerCall
  \/ MainRecv
  \/ \E g \in {"main", "render"} : StopSend(g)
  \/ \E g \in {"main", "render"} : StopRecv(g)
  \/ \E g \in {"main", "render"} : StopClear(g)
  \/ RenderDefault
  \/ RenderFrame
  \/ RenderWake
  \/ RenderSignal
  \/ DeliverSignal
  \/ FetchServersFn
  \/ LatencyFn
  \/ DownloadFn
  \/ UploadFn
  \/ ActionSend
  \/ AfterWithSpinner
  \/ FindServer
  \/ HandleSpeedTest

Spec == Init /\ [][Next]_vars

\* ------------------------------------------------- one WithSpinner call
\* CallSpec follows a single WithSpinner call of RunSpeedTest, of any of the
\* four phases, from the call to its return; the earlier phases, if any,
\* have succeeded without drawing a frame and without a signal.
InitCall ==
  /\ phase \in 1..4
  /\ pc = IF phase = 1
          THEN [main |-> "call", render |-> "none", action |-> "none"]
          ELSE [main |-> "call", render |-> "returned", action |-> "returned"]
  /\ pos = 0
  /\ drawn = 0
  /\ sigChans = [i \in 1..(phase - 1) |-> <<>>]
  /\ nsig = 0
  /\ sigDuring = {}
  /\ errChan = <<>>
  /\ fnRet = NilErr
  /\ err = NilErr
  /\ lastWrite = IF phase = 1 THEN NoWrite ELSE ClearLine
  /\ exitStatus = "running"
  /\ calls = SubSeq(<<PhaseCall(1), "FindServer", PhaseCall(2), PhaseCall(3)>>, 1,
                    IF phase = 1 THEN 0 ELSE phase)
  /\ servers = IF phase = 1 THEN <<>> ELSE <<ServerA, ServerB>>
  /\ targets = IF phase = 1 THEN <<>> ELSE <<ServerB, ServerA>>
  /\ server = IF phase = 1 THEN <<>>
              ELSE IF phase < 4 THEN <<SelectServer(<<ServerB, ServerA>>)>>
              ELSE <<[SelectServer(<<ServerB, ServerA>>) EXCEPT !.DLSpeed = 150000]>>
  /\ latencies = <<>>
  /\ result = <<>>
  /\ quality = <<>>
  /\ retErr = NilErr
  /\ printed = <<>>
  /\ assessed = {}
  /\ arg = NoArg
  /\ ret = NoRet

NextCall ==
  \/ WithSpinnerCall
  \/ MainRecv
  \/ \E g \in {"main", "render"} : StopSend(g)
  \/ \E g \in {"main", "render"} : StopRecv(g)
  \/ \E g \in {"main", "render"} : StopClear(g)
  \/ RenderDefault
  \/ RenderFrame
  \/ RenderWake
  \/ RenderSignal
  \/ DeliverSignal
  \/ FetchServersFn
  \/ LatencyFn
  \/ DownloadFn
  \/ UploadFn
  \/ ActionSend

CallSpec == InitCall /\ [][NextCall]_vars

\* --------------------------------------------------- one spinner, spinning
\* SpinSpec follows the first WithSpinner call while its spinner goes round
\* the frames more than once; UpdateMessage may be called on the running
\* spinner.
InitSpin == InitCall /\ phase = 1

\* Spinner.UpdateMessage 56-58: the current frame is written with the new
\* message; s.pos is read, nothing is assigned
UpdateMessage ==
  /\ Alive
  /\ pc["main"] = "wait"
  /\ lastWrite' = Frame(pos, "Still working...")
  /\ UNCHANGED << pc, phase, spinnerVars, sigChans, nsig, sigDuring, errChan, fnRet, err,
                  exitStatus, calls >>
  /\ UNCHANGED << dataVars, outVars, pureVars >>

NextSpin ==
  \/ WithSpinnerCall
  \/ MainRecv
  \/ \E g \in {"main", "render"} : StopSend(g)
  \/ \E g \in {"main", "render"} : StopRecv(g)
  \/ \E g \in {"main", "render"} : StopClear(g)
  \/ RenderDefaultUpTo(MaxSpin)
  \/ RenderFrame
  \/ RenderWake
  \/ RenderSignal
  \/ DeliverSignal
  \/ UpdateMessage
  \/ FetchServersFn
  \/ ActionSend

SpinSpec == InitSpin /\ [][NextSpin]_vars

\* The Go scheduler runs every goroutine that can take a step, and every
\* external call of an action returns; signals come from outside and are
\* under no fairness.
Fairness ==
  /\ WF_vars(WithSpinnerCall)
  /\ WF_vars(MainRecv)
  /\ \A g \in {"main", "render"} :
       WF_vars(StopSend(g)) /\ WF_vars(StopRecv(g)) /\ WF_vars(StopClear(g))
  /\ WF_vars(RenderDefault)
  /\ WF_vars(RenderFrame)
  /\ WF_vars(RenderWake)
  /\ WF_vars(RenderSignal)
  /\ WF_vars(FetchServersFn)
  /\ WF_vars(LatencyFn)
  /\ WF_vars(DownloadFn)
  /\ WF_vars(UploadFn)
  /\ WF_vars(ActionSend)

FairCallSpec == CallSpec /\ Fairness

\* ------------------------------------------ the pure functions, applied
\* PureSpec applies calculateNetworkQuality and getQualityLabel to arguments
\* drawn around every threshold; no goroutine runs.
SubMs == { 0, 500000, 999999 }
LatencyInputs == { m * NsPerMs + f : m \in {0, 10, 11, 15, 20, 21, 50, 51, 100, 101}, f \in SubMs }
JitterInputs == { m * NsPerMs + f : m \in {0, 2, 3, 5, 6, 10, 11, 15, 16, 30, 31}, f \in {0, 500000} }
DownloadInputs == { 0, 1999, 2000, 4999, 5000, 9999, 10000, 24999, 25000, 30000 }
UploadInputs == { 0, 999, 1000, 1999, 2000, 4999, 5000, 10000 }

ResultInputs ==
  [Latency : LatencyInputs, Jitter : JitterInputs, DownloadSpeed : DownloadInputs,
   UploadSpeed : UploadInputs, ServerName : {"Tokyo"}, ServerCountry : {"Japan"}]

ScoreInputs == (0 - ScoreSlack) .. (100 + ScoreSlack)

PureArgs ==
  { [fn |-> "calculateNetworkQuality", result |-> r, score |-> 0] : r \in ResultInputs }
  \cup
  { [fn |-> "getQualityLabel", result |-> MakeResult(ServerA), score |-> n] : n \in ScoreInputs }

InitPure ==
  /\ InitHarness
  /\ pc = [main |-> "none", render |-> "none", action |-> "none"]
  /\ phase = 0
  /\ arg \in PureArgs
  /\ ret = NoRet

\* speedtest.go 137-153 on arg.result; the three scores are its locals
CallQuality ==
  /\ arg.fn = "calculateNetworkQuality"
  /\ ~ret.called
  /\ ret' = [called |-> TRUE,
             scores |-> [Streaming |-> calculateStreamingScore(arg.result),
                         Gaming    |-> calculateGamingScore(arg.result),
                         Webchat   |-> calculateWebchatScore(arg.result)],
             quality |-> <<calculateNetworkQuality(arg.result)>>,
             label |-> ""]
  /\ assessed' = assessed \cup { <<arg.result, calculateNetworkQuality(arg.result)>> }
  /\ UNCHANGED << pc, phase, spinnerVars, sigChans, nsig, sigDuring, errChan, fnRet, err,
                  lastWrite, exitStatus, calls, arg >>
  /\ UNCHANGED << dataVars, outVars >>

\* speedtest.go 287-300 on arg.score
CallLabel ==
  /\ arg.fn = "getQualityLabel"
  /\ ~ret.called
  /\ ret' = [called |-> TRUE, scores |-> NoScores, quality |-> <<>>,
             label |-> getQualityLabel(arg.score)]
  /\ UNCHANGED << pc, phase, spinnerVars, sigChans, nsig, sigDuring, errChan, fnRet, err,
                  lastWrite, exitStatus, calls, arg, assessed >>
  /\ UNCHANGED << dataVars, outVars >>

NextPure ==
  \/ CallQuality
  \/ CallLabel

PureSpec == InitPure /\ [][NextPure]_vars

\* ------------------------------------ calculateNetworkQuality, called again
\* RepeatSpec calls calculateNetworkQuality again and again, on Results that
\* agree or differ in their metrics and in their server.
RepeatMetrics ==
  { <<15 * NsPerMs, 3 * NsPerMs, 30 * MbpsUnit, 10 * MbpsUnit>>,
    <<20 * NsPerMs + 500000, 5 * NsPerMs + 500000, 9999, 2 * MbpsUnit>>,
    <<101 * NsPerMs, 31 * NsPerMs, 0, 0>> }

RepeatInputs ==
  { [Latency |-> m[1], Jitter |-> m[2], DownloadSpeed |-> m[3], UploadSpeed |-> m[4],
     ServerName |-> srv.Name, ServerCountry |-> srv.Country] :
       m \in RepeatMetrics, srv \in {ServerA, ServerB} }

RepeatArgs ==
  { [fn |-> "calculateNetworkQuality", result |-> r, score |-> 0] : r \in RepeatInputs }

InitRepeat ==
  /\ InitHarness
  /\ pc = [main |-> "none", render |-> "none", action |-> "none"]
  /\ phase = 0
  /\ arg \in RepeatArgs
  /\ ret = NoRet

\* the caller takes the Assessment and has another Result to assess
NextResult ==
  /\ ret.called
  /\ arg' \in RepeatArgs
  /\ ret' = NoRet
  /\ UNCHANGED << pc, phase, spinnerVars, sigChans, nsig, sigDuring, errChan, fnRet, err,
                  lastWrite, exitStatus, calls, assessed >>
  /\ UNCHANGED << dataVars, outVars >>

NextRepeat ==
  \/ CallQuality
  \/ NextResult

RepeatSpec == InitRepeat /\ [][NextRepeat]_vars

\* ------------------------------ the latency action, on many sample sequences
\* LatencySpec runs the latency phase's action alone, TCPPing returning sample
\* sequences around the unit guess's cut point, in microseconds and in
\* nanoseconds.  The samples of one sequence come from one cluster.
SampleClusters ==
  { {15000, 15020, 15040},
    {999998, 1000000, 1000001, 1000004},
    {2000000, 2000040} }

SeqsOver(c) == UNION { [1..n -> c] : n \in 1..MaxSamples }

SampleInputs == SampleSets \cup UNION { SeqsOver(c) : c \in SampleClusters }

\* the latency phase's WithSpinner call has started its goroutines
InitLatency ==
  /\ pc = [main |-> "wait", render |-> "select", action |-> "run"]
  /\ phase = 2
  /\ pos = 0
  /\ drawn = 0
  /\ sigChans = << <<>>, <<>> >>
  /\ nsig = 0
  /\ sigDuring = {}
  /\ errChan = <<>>
  /\ fnRet = NilErr
  /\ err = NilErr
  /\ lastWrite = ClearLine
  /\ exitStatus = "running"
  /\ calls = <<PhaseCall(1), "FindServer">>
  /\ servers = <<ServerA, ServerB>>
  /\ targets \in { t \in TargetsOf(<<ServerA, ServerB>>) : t # <<>> }
  /\ server = <<SelectServer(targets)>>
  /\ latencies = <<>>
  /\ result = <<>>
  /\ quality = <<>>
  /\ retErr = NilErr
  /\ printed = <<>>
  /\ assessed = {}
  /\ arg = NoArg
  /\ ret = NoRet

NextLatency == LatencyFnOn(SampleInputs)

LatencySpec == InitLatency /\ [][NextLatency]_vars

\* ================================================================ claims
Last(s) == s[Len(s)]
Count(s, x) == Cardinality({ i \in 1..Len(s) : s[i] = x })

\* a WithSpinner call has returned and the next one has not started
Between ==
  \/ pc["main"] \in {"ret", "find", "returned"}
  \/ pc["main"] = "call" /\ phase > 1

\* the phase of the WithSpinner call that returned last
lastCall == IF pc["main"] = "call" THEN phase - 1 ELSE phase

\* C1: WithSpinner returns only after fn has finished, and what it returns is
\* exactly the error fn returned (nil when fn succeeded).
C1_ReturnsActionError ==
  pc["main"] = "ret" => (pc["action"] = "returned" /\ err = fnRet)

C1_Witness ==
  /\ pc["main"] = "ret"
  /\ phase = 3
  /\ err = <<"refused">>
  /\ fnRet = <<"refused">>

\* C2: when a WithSpinner call during which no signal arrived has returned,
\* the render goroutine has terminated and the last write to the terminal is
\* the line-clear sequence; this stays so until the next call starts, so no
\* frame follows the clear.
C2_CleanAfterReturn ==
  (Between /\ lastCall \notin sigDuring)
    => (pc["render"] = "returned" /\ lastWrite = ClearLine)

C2_Witness ==
  /\ pc["main"] = "ret"
  /\ phase \notin sigDuring
  /\ err # NilErr
  /\ drawn > 0
  /\ lastWrite = ClearLine

\* a step of one of the program's goroutines
GoroutineStep ==
  \/ WithSpinnerCall \/ MainRecv
  \/ \E g \in {"main", "render"} : StopSend(g) \/ StopRecv(g) \/ StopClear(g)
  \/ RenderDefault \/ RenderFrame \/ RenderWake \/ RenderSignal
  \/ FetchServersFn \/ LatencyFn \/ DownloadFn \/ UploadFn \/ ActionSend
  \/ AfterWithSpinner \/ FindServer \/ HandleSpeedTest

\* C3: after a signal arrives during a WithSpinner call no goroutine is left
\* blocked forever: while RunSpeedTest has not returned, either some goroutine
\* can still take a step or the process has cleared the line and exited with
\* status 1.
C3_InterruptExits ==
  (sigDuring # {} /\ pc["main"] # "returned" /\ ~ENABLED GoroutineStep)
    => (exitStatus = "exit1" /\ lastWrite = ClearLine)

\* C4: a signal that arrives during a phase is never recovered from: RunSpeedTest
\* starts no later phase and returns nothing to its caller.
C4_InterruptNotRecovered ==
  \A p \in sigDuring : phase = p /\ pc["main"] # "returned"

\* the action of the latency, download or upload phase has failed
PhaseFailed ==
  /\ phase \in 2..4
  /\ pc["action"] \in {"send", "returned"}
  /\ fnRet # NilErr

\* C5: once the latency, download or upload action has failed, no later phase
\* starts and no external call is made again; when RunSpeedTest returns, Result
\* and Assessment are nil and the error is the failing phase's name followed by
\* the cause.
C5_PhaseFailureAborts ==
  [][PhaseFailed =>
       /\ PhaseFailed'
       /\ phase' = phase
       /\ calls' = calls
       /\ Count(calls, PhaseCall(phase)) = 1
       /\ pc'["main"] = "returned" =>
            /\ result' = <<>>
            /\ quality' = <<>>
            /\ retErr' = <<PhaseError(phase)>> \o fnRet]_vars

C5_Witness ==
  /\ pc["main"] = "returned"
  /\ phase = 3
  /\ fnRet = <<"timeout">>
  /\ retErr = <<"download test failed", "timeout">>
  /\ calls = <<"FetchServers", "FindServer", "TCPPing", "DownloadTest">>

\* the server-listing call has failed
FetchFailed ==
  /\ phase = 1
  /\ pc["action"] \in {"send", "returned"}
  /\ fnRet # NilErr

\* C6: if the server-listing call fails, no selection and no measurement is
\* ever executed, and RunSpeedTest returns the fetch error with no Result and no
\* Assessment.
C6_FetchFailureAborts ==
  FetchFailed =>
    /\ calls = <<"FetchServers">>
    /\ pc["main"] # "find"
    /\ server = <<>>
    /\ pc["main"] = "returned" =>
         /\ retErr = <<"failed to fetch server list">> \o fnRet
         /\ result = <<>>
         /\ quality = <<>>

C6_Witness ==
  /\ FetchFailed
  /\ pc["main"] = "returned"
  /\ retErr = <<"failed to fetch server list", "refused">>

\* FindServer has returned without an error
Ranked ==
  /\ "FindServer" \in Range(calls)
  /\ ~(phase = 1 /\ err # NilErr)

C8_ResultIffNoError ==
  pc["main"] = "returned" =>
    /\ (result # <<>> /\ quality # <<>>) <=> (retErr = NilErr)
    /\ (result = <<>>) <=> (quality = <<>>)
    /\ retErr = NilErr =>
         /\ result[1].Latency = server[1].Latency
         /\ result[1].Jitter = server[1].Jitter
         /\ Len(latencies) > 0 =>
              LET avg == SumSeq(latencies) \div Len(latencies)
                  scale == IF avg > 1000000 THEN 1 ELSE 1000
              IN  /\ result[1].Latency = avg * scale
                  /\ result[1].Jitter = jitterValue(latencies) * scale
         /\ result[1].DownloadSpeed * 125 <= server[1].DLSpeed
         /\ server[1].DLSpeed < (result[1].DownloadSpeed + 1) * 125
         /\ result[1].UploadSpeed * 125 <= server[1].ULSpeed
         /\ server[1].ULSpeed < (result[1].UploadSpeed + 1) * 125
         /\ result[1].ServerName = targets[1].Name
         /\ result[1].ServerCountry = targets[1].Country
         /\ quality[1] = calculateNetworkQuality(result[1])

C8_Witness ==
  /\ pc["main"] = "returned"
  /\ retErr = NilErr
  /\ Len(latencies) > 0
  /\ result # <<>>
  /\ result[1].DownloadSpeed # result[1].UploadSpeed
  /\ result[1].ServerName = "Lisbon"

\* the spec's threshold tables: <<threshold, points>>, scanned top-down
RECURSIVE FirstAtLeast(_, _)
FirstAtLeast(tab, x) ==
  IF tab = <<>> THEN 0
  ELSE IF x >= tab[1][1] THEN tab[1][2] ELSE FirstAtLeast(Tail(tab), x)

RECURSIVE FirstAtMost(_, _)
FirstAtMost(tab, x) ==
  IF tab = <<>> THEN 0
  ELSE IF x <= tab[1][1] THEN tab[1][2] ELSE FirstAtMost(Tail(tab), x)

\* thresholds in the unit of the compared value
Scaled(tab, unit) == [i \in 1..Len(tab) |-> <<tab[i][1] * unit, tab[i][2]>>]

StreamingTable ==
  [dl  |-> << <<25, 40>>, <<10, 30>>, <<5, 20>>, <<2, 10>> >>,
   lat |-> << <<20, 30>>, <<50, 20>>, <<100, 10>> >>,
   jit |-> << <<5, 20>>, <<15, 10>> >>,
   ul  |-> << <<5, 10>>, <<2, 5>> >>]

GamingTable ==
  [lat |-> << <<10, 40>>, <<20, 30>>, <<50, 20>>, <<100, 10>> >>,
   jit |-> << <<2, 30>>, <<5, 20>>, <<10, 10>> >>,
   dl  |-> << <<10, 20>>, <<5, 15>>, <<2, 10>> >>,
   ul  |-> << <<5, 10>>, <<2, 5>> >>]

RTCTable ==
  [lat |-> << <<20, 30>>, <<50, 20>>, <<100, 10>> >>,
   jit |-> << <<5, 25>>, <<15, 15>>, <<30, 5>> >>,
   ul  |-> << <<5, 25>>, <<2, 15>>, <<1, 10>> >>,
   dl  |-> << <<5, 20>>, <<2, 10>> >>]

\* the table score with latency and jitter compared as durations
TableScore(t, r) ==
  FirstAtMost(Scaled(t.lat, 1000000), r.Latency)
  + FirstAtMost(Scaled(t.jit, 1000000), r.Jitter)
  + FirstAtLeast(Scaled(t.dl, 1000), r.DownloadSpeed)
  + FirstAtLeast(Scaled(t.ul, 1000), r.UploadSpeed)

\* the table score with latency and jitter cut to whole milliseconds first
TableScoreWholeMs(t, r) ==
  FirstAtMost(t.lat, r.Latency \div 1000000)
  + FirstAtMost(t.jit, r.Jitter \div 1000000)
  + FirstAtLeast(Scaled(t.dl, 1000), r.DownloadSpeed)
  + FirstAtLeast(Scaled(t.ul, 1000), r.UploadSpeed)

Scored == arg.fn = "calculateNetworkQuality" /\ ret.called

\* C9 as stated: each score is the sum of the four table contributions, the
\* latency and the jitter being compared with the thresholds as durations.
C9_ScoresFollowTables ==
  Scored =>
    /\ ret.scores.Streaming = TableScore(StreamingTable, arg.result)
    /\ ret.scores.Gaming = TableScore(GamingTable, arg.result)
    /\ ret.scores.Webchat = TableScore(RTCTable, arg.result)

\* C9 amended: each score is the sum of the four table contributions, the
\* latency and the jitter being cut to whole milliseconds before they are
\* compared with the thresholds.
C9_ScoresFollowTablesWholeMs ==
  Scored =>
    /\ ret.scores.Streaming = TableScoreWholeMs(StreamingTable, arg.result)
    /\ ret.scores.Gaming = TableScoreWholeMs(GamingTable, arg.result)
    /\ ret.scores.Webchat = TableScoreWholeMs(RTCTable, arg.result)

C9_Witness ==
  /\ Scored
  /\ arg.result.Latency = 20 * 1000000 + 500000
  /\ arg.result.Jitter = 5 * 1000000 + 500000
  /\ arg.result.DownloadSpeed = 9999
  /\ arg.result.UploadSpeed = 2000
  /\ ret.scores = [Streaming |-> 75, Gaming |-> 70, Webchat |-> 90]

Rank(l) ==
  CASE l = "Bad" -> 0
    [] l = "Poor" -> 1
    [] l = "Average" -> 2
    [] l = "Good" -> 3
    [] l = "Great" -> 4

Labelled == arg.fn = "getQualityLabel" /\ ret.called

\* C10: getQualityLabel gives Great from 80, Good for 60..79, Average for
\* 40..59, Poor for 20..39 and Bad below 20, for every integer score, and a
\* higher score never gets a lower label.
C10_LabelCutPoints ==
  Labelled =>
    /\ ret.label \in {"Bad", "Poor", "Average", "Good", "Great"}
    /\ (ret.label = "Great") <=> (arg.score >= 80)
    /\ (ret.label = "Good") <=> (arg.score \in 60..79)
    /\ (ret.label = "Average") <=> (arg.score \in 40..59)
    /\ (ret.label = "Poor") <=> (arg.score \in 20..39)
    /\ (ret.label = "Bad") <=> (arg.score < 20)
    /\ \A lower \in ScoreInputs :
         lower <= arg.score => Rank(getQualityLabel(lower)) <= Rank(ret.label)

C10_Witness ==
  /\ Labelled
  /\ arg.score = 80
  /\ ret.label = "Great"

\* the spec's worked example: download 30 Mbps, upload 10 Mbps, latency 15 ms,
\* jitter 3 ms
Example ==
  /\ Scored
  /\ arg.result.DownloadSpeed = 30 * 1000
  /\ arg.result.UploadSpeed = 10 * 1000
  /\ arg.result.Latency = 15 * 1000000
  /\ arg.result.Jitter = 3 * 1000000

\* C11 as stated: for the example Result the Gaming score is 70 and the
\* Gaming label is "Good".
C11_ExampleGaming70 ==
  Example => (ret.scores.Gaming = 70 /\ ret.quality[1].Gaming = "Good")

\* C11 amended: for the example Result the Gaming score is
\* 30 (latency) + 20 (jitter) + 20 (download) + 10 (upload) = 80 and the
\* Gaming label is "Great".
C11_ExampleGaming80 ==
  Example => (ret.scores.Gaming = 30 + 20 + 20 + 10 /\ ret.quality[1].Gaming = "Great")

C11_Witness ==
  /\ Example
  /\ ret.scores.Gaming = 80

\* C12: for the example Result the Streaming score is 40+30+20+10 = 100 with
\* label "Great" and the RTC score is 30+25+25+20 = 100 with label "Great".
C12_ExampleStreamingRTC ==
  Example =>
    /\ ret.scores.Streaming = 40 + 30 + 20 + 10
    /\ ret.quality[1].Streaming = "Great"
    /\ ret.scores.Webchat = 30 + 25 + 25 + 20
    /\ ret.quality[1].Webchat = "Great"

C12_Witness ==
  /\ Example
  /\ ret.scores.Streaming = 100
  /\ ret.scores.Webchat = 100
  /\ ret.quality[1].Streaming = "Great"

\* the Results that differ from r in exactly one metric, that metric being worse
WorseInOne(r) ==
  { [r EXCEPT !.Latency = l] : l \in { x \in LatencyInputs : x > r.Latency } }
  \cup { [r EXCEPT !.Jitter = j] : j \in { x \in JitterInputs : x > r.Jitter } }
  \cup { [r EXCEPT !.DownloadSpeed = d] : d \in { x \in DownloadInputs : x < r.DownloadSpeed } }
  \cup { [r EXCEPT !.UploadSpeed = u] : u \in { x \in UploadInputs : x < r.UploadSpeed } }

\* C13: for each use case, a Result that differs from the scored one in
\* exactly one metric, worse there (higher latency, higher jitter, lower
\* download or lower upload), never scores more than the scored one.
C13_ScoresMonotone ==
  Scored =>
    \A w \in WorseInOne(arg.result) :
      /\ calculateStreamingScore(w) <= ret.scores.Streaming
      /\ calculateGamingScore(w) <= ret.scores.Gaming
      /\ calculateWebchatScore(w) <= ret.scores.Webchat

C13_Witness ==
  /\ Scored
  /\ arg.result.Jitter = 15 * 1000000
  /\ ret.scores.Webchat = 90
  /\ \E w \in WorseInOne(arg.result) :
       /\ w.Jitter = 16 * 1000000
       /\ calculateWebchatScore(w) = 80

\* every metric of r meets the first (best) threshold of table t, latency and
\* jitter cut to units of 1000000 \div perMs nanoseconds
AllBest(t, r, perMs) ==
  /\ r.Latency \div (1000000 \div perMs) <= t.lat[1][1] * perMs
  /\ r.Jitter \div (1000000 \div perMs) <= t.jit[1][1] * perMs
  /\ r.DownloadSpeed >= t.dl[1][1] * 1000
  /\ r.UploadSpeed >= t.ul[1][1] * 1000

\* no metric of r meets even the last (weakest) threshold of table t
NoneMet(t, r, perMs) ==
  /\ r.Latency \div (1000000 \div perMs) > t.lat[Len(t.lat)][1] * perMs
  /\ r.Jitter \div (1000000 \div perMs) > t.jit[Len(t.jit)][1] * perMs
  /\ r.DownloadSpeed < t.dl[Len(t.dl)][1] * 1000
  /\ r.UploadSpeed < t.ul[Len(t.ul)][1] * 1000

\* the score s of table t is in 0..100, 100 when every metric meets its best
\* threshold and 0 when none meets any
Extremes(t, r, s, perMs) ==
  /\ s \in 0..100
  /\ AllBest(t, r, perMs) => s = 100
  /\ NoneMet(t, r, perMs) => s = 0

\* C14 as stated: each score is an integer in 0..100, is 100 when all four
\* metrics meet their best threshold and 0 when none meets any threshold, the
\* latency and the jitter being compared with the thresholds as measured
\* (here to the microsecond).
C14_ScoreRange ==
  Scored =>
    /\ Extremes(StreamingTable, arg.result, ret.scores.Streaming, 1000)
    /\ Extremes(GamingTable, arg.result, ret.scores.Gaming, 1000)
    /\ Extremes(RTCTable, arg.result, ret.scores.Webchat, 1000)

\* C14 amended: the same, the latency and the jitter being cut to whole
\* milliseconds before they are compared with the thresholds.
C14_ScoreRangeWholeMs ==
  Scored =>
    /\ Extremes(StreamingTable, arg.result, ret.scores.Streaming, 1)
    /\ Extremes(GamingTable, arg.result, ret.scores.Gaming, 1)
    /\ Extremes(RTCTable, arg.result, ret.scores.Webchat, 1)

C14_Witness ==
  /\ Scored
  /\ AllBest(GamingTable, arg.result, 1)
  /\ arg.result.Latency = 10 * 1000000 + 999999
  /\ ret.scores = [Streaming |-> 100, Gaming |-> 100, Webchat |-> 100]

\* two Results with the same latency, jitter, download and upload
SameMetrics(a, b) ==
  /\ a.Latency = b.Latency
  /\ a.Jitter = b.Jitter
  /\ a.DownloadSpeed = b.DownloadSpeed
  /\ a.UploadSpeed = b.UploadSpeed

Measured ==
  /\ phase = 2
  /\ pc["action"] \in {"send", "returned"}
  /\ fnRet = NilErr
  /\ latencies # <<>>

\* the sum of the first n samples
RECURSIVE Total(_, _)
Total(s, n) == IF n = 0 THEN 0 ELSE Total(s, n - 1) + s[n]

\* the sum of the squared deviations of the first n samples from m
RECURSIVE Spread(_, _, _)
Spread(s, m, n) ==
  IF n = 0 THEN 0 ELSE Spread(s, m, n - 1) + (s[n] - m) * (s[n] - m)

\* m is the arithmetic mean of s, as an integer
IsMean(m, s) == m = Total(s, Len(s)) \div Len(s)

\* j is the population standard deviation of s around m, as an integer:
\* the square root of Spread / N, cut to a whole number
IsPopStdDev(j, m, s) ==
  /\ j >= 0
  /\ j * j <= Spread(s, m, Len(s)) \div Len(s)
  /\ Spread(s, m, Len(s)) \div Len(s) < (j + 1) * (j + 1)

\* C16: for a non-empty sample sequence the stored latency is the arithmetic
\* mean of the samples and the stored jitter is their population standard
\* deviation (squared deviations from that mean, divided by N, square root),
\* each a whole number of the samples' units.
C16_MeanAndPopulationStdDev ==
  Measured =>
    \E u \in {1, 1000} :
      /\ server[1].Latency = (server[1].Latency \div u) * u
      /\ IsMean(server[1].Latency \div u, latencies)
      /\ \E v \in {1, 1000} :
           /\ server[1].Jitter = (server[1].Jitter \div v) * v
           /\ IsPopStdDev(server[1].Jitter \div v, server[1].Latency \div u, latencies)

C16_Witness ==
  /\ Measured
  /\ latencies = <<15000, 15040, 15020>>
  /\ server[1].Latency = 15020 * 1000
  /\ server[1].Jitter = 16 * 1000

AllEqual(s) == \A i \in 1..Len(s) : s[i] = s[1]

\* C17: for a non-empty sample sequence the stored jitter is never negative,
\* and it is 0 when all the samples are equal.
C17_JitterNonNegative ==
  Measured =>
    /\ server[1].Jitter >= 0
    /\ AllEqual(latencies) => server[1].Jitter = 0

C17_Witness ==
  /\ Measured
  /\ latencies = <<1000001, 1000001, 1000001>>
  /\ server[1].Jitter = 0

\* five samples of 10 ms, as nanoseconds or as microseconds
TenMsSamples(s) ==
  /\ Len(s) = 5
  /\ AllEqual(s)
  /\ s[1] \in {10000000, 10000}

\* C18: once TCPPing has returned five samples of 10 ms, the server's latency
\* is exactly 10 ms and its jitter exactly 0, and so they are in the Result.
C18_TenMsExample ==
  TenMsSamples(latencies) =>
    /\ server[1].Latency = 10 * 1000000
    /\ server[1].Jitter = 0
    /\ result # <<>> => (result[1].Latency = 10 * 1000000 /\ result[1].Jitter = 0)

C18_Witness ==
  /\ TenMsSamples(latencies)
  /\ latencies[1] = 10000
  /\ result # <<>>
  /\ result[1].Latency = 10000000
  /\ result[1].Jitter = 0

\* C19: the latency and the jitter of one latency phase are durations of the
\* same unit: nanoseconds when the average is above 1000000, microseconds
\* otherwise, for both.
C19_SameUnit ==
  Measured =>
    \E u \in {1, 1000} :
      /\ server[1].Latency = (server[1].Latency \div u) * u
      /\ IsMean(server[1].Latency \div u, latencies)
      /\ u = (IF server[1].Latency \div u > 1000000 THEN 1 ELSE 1000)
      /\ server[1].Jitter = (server[1].Jitter \div u) * u
      /\ IsPopStdDev(server[1].Jitter \div u, server[1].Latency \div u, latencies)

C19_Witness ==
  /\ Measured
  /\ latencies = <<2000000, 2000040>>
  /\ server[1].Latency = 2000020
  /\ server[1].Jitter = 20

\* the external calls of a whole run, in program order
CallOrder == <<PhaseCall(1), "FindServer", PhaseCall(2), PhaseCall(3), PhaseCall(4)>>

IsPrefix(s, t) == Len(s) <= Len(t) /\ \A i \in 1..Len(s) : s[i] = t[i]

\* a goroutine of an earlier WithSpinner call that has not finished
Finished(g) == pc[g] \in {"none", "returned"}

\* C20: the phases run in the order fetch, latency, download, upload, one
\* WithSpinner call at a time: an action runs only while main waits inside
\* that phase's WithSpinner call, and a WithSpinner call starts only when the
\* previous phase's action and render goroutine have finished, its external
\* call has been made and its line has been cleared.
C20_PhasesSequential ==
  /\ [](/\ IsPrefix(calls, CallOrder)
        /\ pc["action"] \in {"run", "send"} => pc["main"] = "wait"
        /\ pc["action"] = "run" => Len(calls) = (IF phase = 1 THEN 0 ELSE phase))
  /\ [][WithSpinnerCall =>
          /\ Finished("action")
          /\ Finished("render")
          /\ phase > 1 =>
               /\ lastWrite = ClearLine
               /\ Len(calls) = phase
               /\ ~Failed(err)]_vars

C20_Witness ==
  /\ phase = 4
  /\ pc["main"] = "wait"
  /\ pc["action"] = "run"
  /\ pc["render"] = "sleep"
  /\ drawn > 0
  /\ calls = <<PhaseCall(1), "FindServer", PhaseCall(2), PhaseCall(3)>>

\* C21: under fair scheduling every WithSpinner call during which no signal
\* is delivered returns, wherever the render goroutine is in its loop when
\* the action finishes.
C21_WithSpinnerReturns ==
  \A p \in 1..4 :
    (pc["main"] = "wait" /\ phase = p)
      ~> ((pc["main"] = "ret" /\ phase = p) \/ p \in sigDuring)

C21_Witness ==
  /\ pc["main"] = "ret"
  /\ phase = 2
  /\ nsig = 0
  /\ drawn = 0
  /\ pc["render"] = "returned"

\* the speed command has finished
Handled == pc["main"] = "returned" /\ exitStatus \in {"exit0", "exit1"}

PrintedFrom(src) == \E i \in 1..Len(printed) : printed[i].from = src

\* C22: when RunSpeedTest returned an error the speed command prints exactly
\* one error line and exits with status 1; it prints the Result and the
\* Assessment lines and ends with status 0 only when RunSpeedTest returned no
\* error; no Result line is ever printed after an error.
C22_ErrorOrReport ==
  /\ Handled =>
       IF retErr # NilErr
       THEN printed = <<ErrorLine>> /\ exitStatus = "exit1"
       ELSE /\ exitStatus = "exit0"
            /\ ~PrintedFrom("err")
            /\ \A l \in {"Server", "Latency", "Jitter", "Download", "Upload"} :
                 \E i \in 1..Len(printed) : printed[i] = [line |-> l, from |-> "result"]
            /\ \A l \in {"Streaming", "Gaming", "Webchat/RTC"} :
                 \E i \in 1..Len(printed) : printed[i] = [line |-> l, from |-> "quality"]
  /\ (PrintedFrom("result") \/ PrintedFrom("quality") \/ exitStatus = "exit0")
       => (Handled /\ retErr = NilErr /\ result # <<>> /\ quality # <<>>)
  /\ ~Handled => printed = <<>>

C22_Witness ==
  /\ Handled
  /\ retErr = <<"download test failed", "timeout">>
  /\ printed = <<ErrorLine>>
  /\ exitStatus = "exit1"

\* C23: pos is always an index of frames; each rendered frame shows
\* frames[pos] and advances pos by one modulo the frame count, so after k
\* frames pos is k mod 10 and the k-th frame shows glyph (k-1) mod 10; pos
\* changes only when the render loop draws a frame (a new spinner starts
\* at 0), never in Stop or UpdateMessage.
C23_PosCycles ==
  /\ [](pos \in 0..(10 - 1) /\ pos = drawn % 10)
  /\ [][RenderFrame =>
          /\ pos' = (pos + 1) % 10
          /\ lastWrite' = Frame((drawn' - 1) % 10, Message(phase))]_vars
  /\ [][pos' # pos => (RenderFrame \/ WithSpinnerCall)]_vars
  /\ [][(UpdateMessage \/ \E g \in {"main", "render"} : StopSend(g) \/ StopRecv(g) \/ StopClear(g))
          => pos' = pos]_vars

C23_Witness ==
  /\ drawn = 11
  /\ pos = 1
  /\ lastWrite = Frame(0, Message(1))
  /\ pc["render"] = "sleep"

\* the WithSpinner calls started so far
started == IF pc["main"] = "call" THEN phase - 1 ELSE phase

\* C24: every WithSpinner call adds one signal subscription and none is ever
\* removed, so there are as many as calls started; only the running spinner's
\* render loop takes a signal, and only from its own channel; a signal that
\* arrives while no spinner is active goes to the stale channels only (each
\* holds a signal afterwards): the process runs on, and no later spinner
\* receives it.
C24_StaleSubscriptions ==
  /\ [](Len(sigChans) = started)
  /\ [][/\ Len(sigChans') >= Len(sigChans)
        /\ \A i \in 1..Len(sigChans) :
             Len(sigChans'[i]) < Len(sigChans[i]) => (i = Len(sigChans) /\ RenderSignal)]_vars
  /\ [][RenderSignal => (Active /\ phase \in sigDuring)]_vars
  /\ [][(DeliverSignal /\ ~Active /\ sigChans # <<>>) =>
          /\ exitStatus' = "running"
          /\ pc' = pc
          /\ Len(sigChans') = Len(sigChans)
          /\ \A i \in 1..Len(sigChans) : sigChans'[i] # <<>>]_vars

C24_Witness ==
  /\ phase = 3
  /\ pc["main"] = "wait"
  /\ pc["render"] = "sleep"
  /\ sigChans = << <<"SIGINT">>, <<"SIGINT">>, <<>> >>
  /\ sigDuring = {}
  /\ exitStatus = "running"

\* the raw average of a sample sequence
RawAverage(s) == Total(s, Len(s)) \div Len(s)

\* C25 as stated: the stored latency is order-preserving in the raw average:
\* a sample sequence with a raw average not above the measured one never
\* gets a longer stored latency.
C25_LatencyOrderPreserving ==
  Measured =>
    \A other \in SampleInputs \ {<<>>} :
      RawAverage(other) <= RawAverage(latencies)
        => MeasuredServer(server[1], other).Latency <= server[1].Latency

\* the Results that differ from r only below the millisecond, in latency or
\* in jitter
SameWholeMs(r) ==
  { w \in { [r EXCEPT !.Latency = l, !.Jitter = j] : l \in LatencyInputs, j \in JitterInputs } :
      /\ w.Latency \div 1000000 = r.Latency \div 1000000
      /\ w.Jitter \div 1000000 = r.Jitter \div 1000000 }

\* C26: a Result that differs from the scored one only in the sub-millisecond
\* part of its latency or jitter gets the same three scores and labels; so a
\* latency above a threshold by less than 1 ms earns that threshold's points.
C26_SubMillisecondIgnored ==
  Scored =>
    \A w \in SameWholeMs(arg.result) :
      /\ calculateStreamingScore(w) = ret.scores.Streaming
      /\ calculateGamingScore(w) = ret.scores.Gaming
      /\ calculateWebchatScore(w) = ret.scores.Webchat
      /\ calculateNetworkQuality(w) = ret.quality[1]

C26_Witness ==
  /\ Scored
  /\ arg.result.Latency = 20 * 1000000 + 999999
  /\ arg.result.Jitter = 5 * 1000000 + 500000
  /\ arg.result.DownloadSpeed = 30000
  /\ arg.result.UploadSpeed = 10000
  /\ [arg.result EXCEPT !.Latency = 20 * 1000000, !.Jitter = 5 * 1000000]
       \in SameWholeMs(arg.result)
  /\ ret.scores = [Streaming |-> 100, Gaming |-> 80, Webchat |-> 100]

\* TCPPing has returned no sample and no error
NoSample ==
  /\ latencies = <<>>
  /\ \/ phase = 2 /\ pc["action"] \in {"send", "returned"} /\ fnRet = NilErr
     \/ phase > 2

\* C27: when TCPPing returns no error and no sample, the latency phase
\* succeeds, the server keeps the latency and the jitter it had when it was
\* selected, the run goes on to the download phase, and the Result reports
\* those values.
C27_NoSampleKeepsValues ==
  /\ [](NoSample =>
          /\ server[1].Latency = SelectServer(targets).Latency
          /\ server[1].Jitter = SelectServer(targets).Jitter
          /\ phase = 2 => (fnRet = NilErr /\ (pc["main"] = "ret" => err = NilErr))
          /\ result # <<>> =>
               /\ result[1].Latency = SelectServer(targets).Latency
               /\ result[1].Jitter = SelectServer(targets).Jitter)
  /\ [][(NoSample /\ phase = 2 /\ AfterWithSpinner)
          => (phase' = 3 /\ pc'["main"] = "call" /\ exitStatus' = "running")]_vars

C27_Witness ==
  /\ NoSample
  /\ result # <<>>
  /\ targets = <<ServerB, ServerA>>
  /\ result[1].Latency = 30 * 1000000
  /\ result[1].Jitter = 4 * 1000000
  /\ Len(calls) = 5

====
